---- MODULE Spec2Model ----
(***************************************************************************)
(* The hushline local agent (.agent/agent.py): the poll loop of main, the  *)
(* issue pipeline process_issue, the dedup store state["processed_issues"] *)
(* and its persistence by save_state / save_json, as a state machine; the   *)
(* branch naming of slugify / minimal_branch_name as operators on          *)
(* sequences of characters, with a specification of its own.               *)
(*                                                                         *)
(* External collaborators (the tracker API, the model endpoint, the git    *)
(* executable, the preflight tools, the file system) answer                *)
(* nondeterministically; the agent's own control flow is translated from   *)
(* the source.                                                             *)
(***************************************************************************)
EXTENDS Integers, Sequences, FiniteSets, TLC

\* ------------------------------------------------------------------ bounds
\* Issue identifiers the tracker hands out are 1..MaxIssue.
MaxIssue == 2
\* The poll loop is followed for at most MaxTicks list-issues calls.
MaxTicks == 2

\* History counter of process_issue calls per issue and tick: followed up to this.
MaxAttempts == 2

\* An issue title is made of at most MaxRuns runs of one character each.
MaxRuns == 2

Ids == 1..MaxIssue

\* ------------------------------------------------------------------ texts
\* A model output is a sequence of tokens:
\*   "F"  a code fence ```            "T"  the tag diff / patch (any case)
\*   "L"  another word (python, ...)  "S"  white space
\*   "X"  a line of prose
\*   "M"  a line that begins with "--- "   "P"  a line that begins with "+++ "
\* Every token but a tag directly after a fence starts its own line.

RECURSIVE LStrip(_)
LStrip(s) == IF s # <<>> /\ Head(s) = "S" THEN LStrip(Tail(s)) ELSE s

RECURSIVE RStrip(_)
RStrip(s) ==
    IF s # <<>> /\ s[Len(s)] = "S" THEN RStrip(SubSeq(s, 1, Len(s) - 1)) ELSE s

\* str.strip()
Strip(s) == RStrip(LStrip(s))

Has(s, tok) == \E i \in 1..Len(s) : s[i] = tok

\* Positions of the first fence that has a later fence, and of that later
\* fence: where re.search finds ```(?:diff|patch)?\s*(.*?)``` (DOTALL).
FenceOpen(s) ==
    { i \in 1..Len(s) : /\ s[i] = "F"
                        /\ \E j \in (i + 1)..Len(s) : s[j] = "F"
                        /\ \A k \in 1..(i - 1) : s[k] # "F" }

FenceClose(s, i) ==
    CHOOSE j \in (i + 1)..Len(s) :
        s[j] = "F" /\ \A k \in (i + 1)..(j - 1) : s[k] # "F"

\* group(1) of the fence match: what follows the optional tag and the white
\* space after it, up to the closing fence.
FenceGroup(s) ==
    LET i == CHOOSE x \in FenceOpen(s) : TRUE
        j == FenceClose(s, i)
        a == IF i + 1 < j /\ s[i + 1] = "T" THEN i + 2 ELSE i + 1
    IN  LStrip(SubSeq(s, a, j - 1))

FenceMatches(s) == FenceOpen(s) # {}

extract_unified_diff(text) ==
    IF FenceMatches(text) THEN Strip(FenceGroup(text))
    ELSE IF Has(text, "M") /\ Has(text, "P") THEN Strip(text)
    ELSE <<>>

\* What git apply needs of its input: a "--- " header line followed by a
\* "+++ " header line (text before the first header is skipped by git).
LooksLikePatch(d) ==
    \E i \in 1..Len(d) : \E j \in (i + 1)..Len(d) : d[i] = "M" /\ d[j] = "P"

\* The completions the model endpoint returns in this model.
ModelOutputs ==
    { <<"X">>,
      <<"F", "T", "M", "P", "F">>,
      <<"M", "P">>,
      <<"X", "M", "P">>,
      <<"F", "L", "X", "F">>,
      <<"X", "F", "S", "M", "P", "S", "F">> }

\* ------------------------------------------------------------ branch names
\* A title, a slug and a branch name are sequences of characters.
LowerCase == {"a", "b"}
UpperCase == {"A", "B"}
Digits == {"0", "1", "2", "3", "4", "5", "6", "7", "8", "9"}

\* The characters of the titles followed here: letters of both cases, the
\* hyphen, the dot (which the pattern of slugify keeps), a punctuation mark
\* and the blank (which it does not keep).
TitleChars == {"a", "B", "-", ".", "!", " "}

\* slugify 59: [:60]
SlugMax == 60

\* slugify 59: or "change"
Placeholder == <<"c", "h", "a", "n", "g", "e">>

\* minimal_branch_name 280: the literal in front of the issue number
BranchPrefix == <<"a", "g", "e", "n", "t", "/", "i", "s", "s", "u", "e", "-">>

\* str.lower() of one character
lower(c) == CASE c = "A" -> "a" [] c = "B" -> "b" [] OTHER -> c

\* The class [a-z0-9\-._/] of slugify 57
Kept(c) == c \in LowerCase \cup Digits \cup {"-", ".", "_", "/"}

\* slugify 56: s.lower()
Lower(s) == [i \in 1..Len(s) |-> lower(s[i])]

\* The sequence without the positions marked "" (no character).
Unmarked(s) == SelectSeq(s, LAMBDA c : c # "")

\* slugify 57: re.sub(r"[^a-z0-9\-._/]+", "-", s): each longest run of
\* characters outside the class becomes one hyphen (written where the run
\* begins).
SubUnkept(s) ==
    Unmarked([i \in 1..Len(s) |->
                 IF Kept(s[i]) THEN s[i]
                 ELSE IF i = 1 \/ Kept(s[i - 1]) THEN "-"
                 ELSE ""])

\* slugify 58: re.sub(r"-+", "-", s): each run of hyphens becomes one.
SubHyphens(s) ==
    Unmarked([i \in 1..Len(s) |->
                 IF s[i] # "-" \/ i = 1 THEN s[i]
                 ELSE IF s[i - 1] # "-" THEN "-"
                 ELSE ""])

\* slugify 59: s.strip("-"): from the first to the last character that is
\* no hyphen.
StripHyphens(s) ==
    LET others == { i \in 1..Len(s) : s[i] # "-" }
    IN  IF others = {} THEN <<>>
        ELSE SubSeq(s, CHOOSE i \in others : \A j \in others : i <= j,
                       CHOOSE i \in others : \A j \in others : i >= j)

\* s[:n]
Take(s, n) == SubSeq(s, 1, IF Len(s) < n THEN Len(s) ELSE n)

\* slugify 55-59
slugify(s) ==
    LET t == Take(StripHyphens(SubHyphens(SubUnkept(Lower(s)))), SlugMax)
    IN  IF t = <<>> THEN Placeholder ELSE t

\* str(number) of a positive integer
RECURSIVE str(_)
str(n) ==
    LET d == <<"0", "1", "2", "3", "4", "5", "6", "7", "8", "9">>
    IN  IF n < 10 THEN <<d[n + 1]>> ELSE str(n \div 10) \o <<d[(n % 10) + 1]>>

\* minimal_branch_name 279-280: f"agent/issue-{number}-{slugify(title)}"
minimal_branch_name(number, t) ==
    BranchPrefix \o str(number) \o <<"-">> \o slugify(t)

\* A run of n times the character c.
Rep(c, n) == [i \in 1..n |-> c]

\* The lengths of a run: one character, or one more than slugify keeps.
RunLens == {1, SlugMax + 1}

RECURSIVE TitlesOf(_)
TitlesOf(k) ==
    IF k = 0 THEN {<<>>}
    ELSE LET shorter == TitlesOf(k - 1)
         IN  shorter \cup { t \o Rep(c, n) :
                               t \in shorter, c \in TitleChars, n \in RunLens }

\* The titles followed: up to MaxRuns runs.
Titles == TitlesOf(MaxRuns)

\* ------------------------------------------------------------ persistence
STATE_FILE == "state.json"

\* path.with_suffix(".tmp") as a direct write to the final path would be.
with_suffix_inplace(path) == path

\* path.with_suffix(".tmp")
with_suffix(path) == IF path = "state.json" THEN "state.tmp" ELSE path

Paths == {"state.json", "state.tmp"}

Absent == [exists |-> FALSE, data |-> <<>>]

RECURSIVE SortedKeys(_)
SortedKeys(S) ==
    IF S = {} THEN <<>>
    ELSE LET m == CHOOSE x \in S : \A y \in S : x <= y
         IN  <<<<"id", m>>>> \o SortedKeys(S \ {m})

\* json.dump(obj, f, indent=2, sort_keys=True): the object as the sequence of
\* chunks written to the file, keys in sorted order.
json_dump(st) ==
    <<<<"{", 0>>, <<"last_run", st.last_run>>>>
        \o SortedKeys(st.processed_issues) \o <<<<"}", 0>>>>

\* A file content json.load accepts: a whole object, brace to brace.
Parseable(d) ==
    /\ Len(d) >= 3
    /\ d[1] = <<"{", 0>>
    /\ d[Len(d)] = <<"}", 0>>
    /\ d[2][1] = "last_run"
    /\ \A k \in 3..(Len(d) - 1) : d[k][1] = "id"

\* json.load of a parseable content.
json_load(d) ==
    [processed_issues |-> { d[k][2] : k \in 3..(Len(d) - 1) },
     last_run |-> d[2][2]]

\* load_state 71-75: the content of the state file when it exists, the
\* default (no processed issue, no last run) when it does not.
load_state(fs) ==
    IF fs[STATE_FILE].exists
    THEN json_load(fs[STATE_FILE].data)
    ELSE [processed_issues |-> {}, last_run |-> 0]

\* ------------------------------------------------------------------ state
VARIABLES
    stateDirTracked, \* upstream main tracks a file under .agent/_state
    stop,            \* main: the stop flag set by handle_sigterm
    pc,              \* position of the single thread of control
    tick,            \* number of list-issues calls made; also the clock
    state,           \* main: state (processed_issues, last_run)
    issues,          \* main: the listing of this tick
    idx,             \* main: position of the for loop in the listing
    caller,          \* which save_state call is running: "mark" (421), "tick" (428)
    branches,        \* local topic branches, by issue number
    dirty,           \* the working tree / index differs from HEAD
    remote,          \* the remote agent-origin is configured
    files,           \* content of state.json and state.tmp under STATE_DIR
    stateDirExists,  \* STATE_DIR exists
    llm_out,         \* process_issue: llm_out
    diff,            \* process_issue: diff
    checks,          \* run_checks: files found, command at hand, commands run
    attempts,        \* history: process_issue calls per issue in this tick
    before,          \* history: processed_issues when the attempt at hand began
    failedAt,        \* history: step at which the attempt at hand failed
    ext,             \* history: answer of the outside world to the last step
    rmFailed,        \* history: the last removal of an existing remote failed
    prs,             \* history: successful open_pr calls per issue
    loaded,          \* history: processed_issues as load_state returned it
    title,           \* minimal_branch_name: issue["title"]
    branch           \* process_issue: branch

vars == <<stateDirTracked, stop, pc, tick, state, issues, idx, caller, branches,
          dirty, remote, files, stateDirExists, llm_out, diff, checks, attempts,
          before, failedAt, ext, rmFailed, prs, loaded, title, branch>>

\* The variables of the branch naming, which the poll loop does not follow.
naming == <<title, branch>>


Cmds == {"pip_pip", "pip_poetry", "poetry_install", "poetry_pytest",
         "pip_pytest", "pytest", "pip_precommit", "precommit_run"}

NoChecks == [lock |-> FALSE, proj |-> FALSE, hooks |-> FALSE,
             at |-> "none", ran |-> {}]

cur == issues[idx]

\* list_open_agent_issues 247-249: the open labelled issues, each once, in the
\* tracker's order (newest first).
Listings ==
    { l \in UNION { [1..n -> Ids] : n \in 0..MaxIssue } :
        \A i, j \in 1..Len(l) : i < j => l[i] > l[j] }

\* What an earlier run of the agent left in the state file.
EarlierRuns == {{}, {1}}

\* load_state: the state file of an earlier run, or the default.
Init ==
    /\ stateDirTracked \in BOOLEAN
    /\ stop = FALSE
    /\ pc = "while"
    /\ tick = 0
    /\ \E P \in EarlierRuns :
          /\ state = [processed_issues |-> P, last_run |-> 0]
          /\ loaded = P
          /\ files \in { [p \in Paths |->
                            IF p = STATE_FILE /\ e
                            THEN [exists |-> TRUE, data |-> json_dump(state)]
                            ELSE Absent] : e \in (IF P = {} THEN BOOLEAN ELSE {TRUE}) }
    /\ stateDirExists = TRUE
    /\ issues = <<>>
    /\ idx = 1
    /\ caller = "none"
    /\ branches = {}
    /\ dirty = FALSE
    /\ remote = FALSE
    /\ rmFailed = FALSE
    /\ llm_out = <<>>
    /\ diff = <<>>
    /\ checks = NoChecks
    /\ attempts = [i \in Ids |-> 0]
    /\ before = {}
    /\ failedAt = "none"
    /\ ext = "none"
    /\ prs = [i \in Ids |-> 0]
    /\ title = <<>>
    /\ branch = <<>>

\* ---------------------------------------------------------------- helpers
Running(p) == pc = p

\* The dedup test as it would be if it never found an entry.
already_never(st, num) == FALSE

\* main 415-417: already = state["processed_issues"].get(num); if already.
\* The values stored are non-empty dicts, so the test is presence of the key.
already(st, num) == num \in st.processed_issues

\* main 420 as it would be in the except branch.
except_state_marks(st, num) ==
    [st EXCEPT !.processed_issues = @ \cup {num}]

\* main 422-425 as a handler that took the mark of 420 back would be.
except_state_unmarks(st, num) == [st EXCEPT !.processed_issues = @ \ {num}]

\* main 422-425: the except branch leaves the dedup mapping alone.
except_state(st, num) == st

\* main 420: state["processed_issues"][num] = {...}
mark_processed(st, num) == [st EXCEPT !.processed_issues = @ \cup {num}]

\* main 425 followed by the next iteration of the for loop, as a handler
\* that tried the same issue again would be.
after_failure_same(i) == i

\* main 425 followed by the next iteration of the for loop.
after_failure(i) == i + 1

\* save_state 78: state["last_run"] = now
stamp(st) == [st EXCEPT !.last_run = tick]

\* delete_ephemeral_remote / create_ephemeral_remote 117: git remote remove
\* with check=False; a non-zero exit is ignored and leaves the remote.
RemoteAfterRemove(present, rmOK) == present /\ ~rmOK

\* process_issue 373-376 with the removal after the push instead of in finally.
finally_on_success(pushOK) == pushOK

\* process_issue 373-376: finally runs delete_ephemeral_remote either way.
finally_runs(pushOK) == TRUE

\* An exception of process_issue that main did not catch.
Fail_uncaught(step) ==
    /\ pc' = "crashed"
    /\ failedAt' = step
    /\ state' = state

\* An exception of process_issue: caught by main 422-425, which logs it.
Fail(step) ==
    /\ pc' = "retry_sleep"
    /\ failedAt' = step
    /\ state' = except_state(state, cur)

\* A step of process_issue that returned: on to the next one.
Step(next) ==
    /\ pc' = next
    /\ UNCHANGED <<state, failedAt>>

\* ---------------------------------------------------------------- main loop
\* main 410 as a loop that never looks at the flag.
loop_test_always(flag) == TRUE

\* main 410: while not stop
loop_test(flag) == ~flag

\* main 410: while not stop, left when the flag is set.
Exit ==
    /\ Running("while")
    /\ ~loop_test(stop)
    /\ pc' = "exited"
    /\ UNCHANGED naming
    /\ UNCHANGED <<stateDirTracked, stop, tick, state, issues, idx, caller, branches,
                   dirty, remote, files, stateDirExists, llm_out, diff, checks,
                   attempts, before, failedAt, ext, rmFailed, prs, loaded>>

\* main 410-412: one list-issues call; an error is the poll error of 426-427.
Poll ==
    /\ Running("while")
    /\ loop_test(stop)
    /\ tick < MaxTicks
    /\ tick' = tick + 1
    /\ attempts' = [i \in Ids |-> 0]
    /\ idx' = 1
    /\ pc' = "for"
    /\ \E ok \in BOOLEAN, l \in Listings :
          /\ issues' = IF ok THEN l ELSE <<>>
          /\ ext' = IF ok THEN "listed" ELSE "poll_error"
    /\ UNCHANGED naming
    /\ UNCHANGED <<stateDirTracked, stop, state, caller, branches, dirty, remote, files,
                   stateDirExists, llm_out, diff, checks, before, failedAt, rmFailed,
                   prs, loaded>>

\* main 413, 428: the listing is exhausted; save_state(state) of the tick.
ForDone ==
    /\ Running("for")
    /\ idx > Len(issues)
    /\ state' = stamp(state)
    /\ caller' = "tick"
    /\ pc' = "save_open"
    /\ UNCHANGED naming
    /\ UNCHANGED <<stateDirTracked, stop, tick, issues, idx, branches, dirty, remote,
                   files, stateDirExists, llm_out, diff, checks, attempts, before,
                   failedAt, ext, rmFailed, prs, loaded>>

\* main 414-417: an issue already processed is skipped.
ForSkip ==
    /\ Running("for")
    /\ idx <= Len(issues)
    /\ already(state, cur)
    /\ idx' = idx + 1
    /\ UNCHANGED naming
    /\ UNCHANGED <<stateDirTracked, stop, pc, tick, state, issues, caller, branches,
                   dirty, remote, files, stateDirExists, llm_out, diff, checks,
                   attempts, before, failedAt, ext, rmFailed, prs, loaded>>

\* main 418-419: process_issue is called for the issue.
ForStart ==
    /\ Running("for")
    /\ idx <= Len(issues)
    /\ ~already(state, cur)
    /\ attempts[cur] < MaxAttempts
    /\ attempts' = [attempts EXCEPT ![cur] = @ + 1]
    /\ before' = state.processed_issues
    /\ failedAt' = "none"
    /\ ext' = "none"
    /\ pc' = "ack_issue"
    /\ UNCHANGED naming
    /\ UNCHANGED <<stateDirTracked, stop, tick, state, issues, idx, caller, branches,
                   dirty, remote, files, stateDirExists, llm_out, diff, checks,
                   rmFailed, prs, loaded>>

\* main 425: time.sleep(5), then the next issue of the listing.
retry_sleep ==
    /\ Running("retry_sleep")
    /\ pc' = "for"
    /\ idx' = after_failure(idx)
    /\ llm_out' = <<>>
    /\ diff' = <<>>
    /\ checks' = NoChecks
    /\ failedAt' = "none"
    /\ ext' = "none"
    /\ before' = {}
    /\ UNCHANGED naming
    /\ UNCHANGED <<stateDirTracked, stop, tick, state, issues, caller, branches, dirty,
                   remote, files, stateDirExists, attempts, rmFailed, prs, loaded>>

\* main 429: time.sleep(poll_seconds)
poll_sleep ==
    /\ Running("sleep")
    /\ pc' = "while"
    /\ UNCHANGED naming
    /\ UNCHANGED <<stateDirTracked, stop, tick, state, issues, idx, caller, branches,
                   dirty, remote, files, stateDirExists, llm_out, diff, checks,
                   attempts, before, failedAt, ext, rmFailed, prs, loaded>>

\* main 401-403: SIGINT / SIGTERM sets the flag, wherever the loop is.
handle_sigterm ==
    /\ pc \notin {"exited", "crashed"}
    /\ ~stop
    /\ stop' = TRUE
    /\ UNCHANGED naming
    /\ UNCHANGED <<stateDirTracked, pc, tick, state, issues, idx, caller, branches,
                   dirty, remote, files, stateDirExists, llm_out, diff, checks,
                   attempts, before, failedAt, ext, rmFailed, prs, loaded>>

\* ------------------------------------------------------------ process_issue
\* ack_issue 273-277 as it would be without the try.
ack_raises(ok) == ok

\* ack_issue 274-277: try / except Exception: the call returns whether the
\* comment was posted (ok) or not.
ack_returns(ok) == TRUE

\* process_issue 345, ack_issue 273-277: the comment is posted or the failure
\* is logged; either way the pipeline goes on.
ack_issue ==
    /\ Running("ack_issue")
    /\ \E ok \in BOOLEAN :
          /\ ext' = IF ok THEN "ok" ELSE "fail"
          /\ IF ack_returns(ok) THEN Step("ensure_clean_main") ELSE Fail("ack_issue")
    /\ UNCHANGED naming
    /\ UNCHANGED <<stateDirTracked, stop, tick, issues, idx, caller, branches, dirty,
                   remote, files, stateDirExists, llm_out, diff, checks, attempts,
                   before, rmFailed, prs, loaded>>

\* process_issue 346, ensure_clean_main 107-112: fetch, checkout, reset --hard,
\* clean -fdx; r names the command that failed. reset --hard drops the changes
\* of tracked files, clean -fdx removes every untracked and ignored file, the
\* files of STATE_DIR among them, and STATE_DIR itself unless upstream tracks
\* a file in it. The local topic branches are not touched.
ensure_clean_main ==
    /\ Running("ensure_clean_main")
    /\ \E r \in {"fetch", "checkout", "reset", "clean", "ok"}, part \in BOOLEAN :
          /\ ext' = IF r = "ok" THEN "ok" ELSE "fail"
          /\ dirty' = IF r \in {"clean", "ok"} THEN FALSE ELSE dirty
          /\ IF r = "ok" \/ (r = "clean" /\ part)
             THEN /\ files' = [p \in Paths |-> Absent]
                  /\ stateDirExists' = (stateDirExists /\ stateDirTracked)
             ELSE UNCHANGED <<files, stateDirExists>>
          /\ IF r = "ok" THEN Step("create_branch") ELSE Fail("ensure_clean_main")
    /\ UNCHANGED naming
    /\ UNCHANGED <<stateDirTracked, stop, tick, issues, idx, caller, branches, remote,
                   llm_out, diff, checks, attempts, before, rmFailed, prs, loaded>>

\* process_issue 348-349, create_branch 255-256: git checkout -b <branch> main
\* fails when git fails and when the branch of that name exists already.
create_branch ==
    /\ Running("create_branch")
    /\ \E g \in BOOLEAN :
          /\ ext' = IF g THEN "ok" ELSE "fail"
          /\ IF g /\ cur \notin branches
             THEN /\ branches' = branches \cup {cur}
                  /\ Step("build_prompt")
             ELSE /\ UNCHANGED branches
                  /\ Fail("create_branch")
    /\ UNCHANGED naming
    /\ UNCHANGED <<stateDirTracked, stop, tick, issues, idx, caller, dirty, remote,
                   files, stateDirExists, llm_out, diff, checks, attempts, before,
                   rmFailed, prs, loaded>>

\* process_issue 351-352: choose_candidate_files, build_prompt (reads the
\* prompt template).
build_prompt ==
    /\ Running("build_prompt")
    /\ \E ok \in BOOLEAN :
          /\ ext' = IF ok THEN "ok" ELSE "fail"
          /\ IF ok THEN Step("call_ollama") ELSE Fail("build_prompt")
    /\ UNCHANGED naming
    /\ UNCHANGED <<stateDirTracked, stop, tick, issues, idx, caller, branches, dirty,
                   remote, files, stateDirExists, llm_out, diff, checks, attempts,
                   before, rmFailed, prs, loaded>>

\* process_issue 353, call_ollama 175-188
call_ollama ==
    /\ Running("call_ollama")
    /\ \E ok \in BOOLEAN, t \in ModelOutputs :
          /\ ext' = IF ok THEN "ok" ELSE "fail"
          /\ IF ok
             THEN /\ llm_out' = t
                  /\ Step("extract_unified_diff")
             ELSE /\ UNCHANGED llm_out
                  /\ Fail("call_ollama")
    /\ UNCHANGED naming
    /\ UNCHANGED <<stateDirTracked, stop, tick, issues, idx, caller, branches, dirty,
                   remote, files, stateDirExists, diff, checks, attempts, before,
                   rmFailed, prs, loaded>>

\* process_issue 356 as it would be without the test.
no_diff_never(d) == FALSE

\* process_issue 356: if not diff
no_diff(d) == d = <<>>

\* process_issue 355-357: diff = extract_unified_diff(llm_out); no diff raises.
extract_diff ==
    /\ Running("extract_unified_diff")
    /\ diff' = extract_unified_diff(llm_out)
    /\ ext' = "none"
    /\ IF no_diff(diff') THEN Fail("extract_unified_diff") ELSE Step("apply_diff")
    /\ UNCHANGED naming
    /\ UNCHANGED <<stateDirTracked, stop, tick, issues, idx, caller, branches, dirty,
                   remote, files, stateDirExists, llm_out, checks, attempts, before,
                   rmFailed, prs, loaded>>

\* process_issue 359-362, apply_diff 208-213: the diff is written to
\* STATE_DIR/change.diff (which needs the directory), then
\* git apply --index --whitespace=fix runs once. r is what git would do with
\* the diff: "ok" the index apply succeeds, "fallback_ok" it fails where a
\* three-way apply would succeed, "fail" both would fail. After the apply
\* llm_out is read only for the text of the PR body, which is not followed.
apply_diff ==
    /\ Running("apply_diff")
    /\ IF ~stateDirExists
       THEN /\ ext' = "nowrite"
            /\ UNCHANGED <<dirty, llm_out>>
            /\ Fail("apply_diff")
       ELSE \E r \in {"ok", "fallback_ok", "fail"} :
               /\ r # "fail" => LooksLikePatch(diff)
               /\ ext' = r
               /\ IF r = "ok"
                  THEN /\ dirty' = TRUE
                       /\ llm_out' = <<>>
                       /\ Step("run_checks")
                  ELSE /\ UNCHANGED <<dirty, llm_out>>
                       /\ Fail("apply_diff")
    /\ UNCHANGED naming
    /\ UNCHANGED <<stateDirTracked, stop, tick, issues, idx, caller, branches, remote,
                   files, stateDirExists, diff, checks, attempts, before, rmFailed,
                   prs, loaded>>

\* --------------------------------------------------------------- run_checks
\* run_checks 238-240: the hooks, when .pre-commit-config.yaml exists.
Hooks(c) == IF c.hooks THEN "pip_precommit" ELSE "return"

\* run_checks 227, 233, 238: the first command of the preflight.
FirstCmd(c) ==
    IF c.lock THEN "pip_pip"
    ELSE IF c.proj THEN "pip_pytest"
    ELSE Hooks(c)

\* run_checks 228-242: the command after command at, ok being what exec_log
\* returned for it ("return" is the return of the log).
AfterCmd(c, at, ok) ==
    CASE at = "pip_pip" -> "pip_poetry"
      [] at = "pip_poetry" -> "poetry_install"
      [] at = "poetry_install" -> IF ok THEN "poetry_pytest" ELSE "return"
      [] at = "poetry_pytest" -> Hooks(c)
      [] at = "pip_pytest" -> "pytest"
      [] at = "pytest" -> Hooks(c)
      [] at = "pip_precommit" -> "precommit_run"
      [] at = "precommit_run" -> "return"

\* process_issue 365, run_checks 215-238: which of poetry.lock,
\* pyproject.toml / tests and .pre-commit-config.yaml exist in the tree. The
\* diff is not read again but for the text of the PR body.
run_checks ==
    /\ Running("run_checks")
    /\ \E l, p, h \in BOOLEAN :
          LET c == [lock |-> l, proj |-> p, hooks |-> h, at |-> "none", ran |-> {}]
          IN  /\ checks' = [c EXCEPT !.at = FirstCmd(c)]
              /\ pc' = IF FirstCmd(c) = "return" THEN "commit_all" ELSE "exec_log"
    /\ ext' = "none"
    /\ diff' = <<>>
    /\ UNCHANGED <<state, failedAt>>
    /\ UNCHANGED naming
    /\ UNCHANGED <<stateDirTracked, stop, tick, issues, idx, caller, branches, dirty,
                   remote, files, stateDirExists, llm_out, attempts, before, rmFailed,
                   prs, loaded>>

\* run_checks 217-224: exec_log runs one command; CalledProcessError (a
\* non-zero exit) is caught and logged, any other exception of run (the
\* executable cannot be launched: FileNotFoundError) is not caught and
\* leaves run_checks with its locals.
exec_log ==
    /\ Running("exec_log")
    /\ \E out \in {"ok", "nonzero", "nolaunch"} :
          /\ ext' = out
          /\ IF out = "nolaunch"
             THEN /\ checks' = NoChecks
                  /\ Fail("run_checks")
             ELSE LET nxt == AfterCmd(checks, checks.at, out = "ok")
                  IN  /\ checks' = [checks EXCEPT !.at = nxt,
                                                  !.ran = @ \cup {checks.at}]
                      /\ Step(IF nxt = "return" THEN "commit_all" ELSE "exec_log")
    /\ UNCHANGED naming
    /\ UNCHANGED <<stateDirTracked, stop, tick, issues, idx, caller, branches, dirty,
                   remote, files, stateDirExists, llm_out, diff, attempts, before,
                   rmFailed, prs, loaded>>

\* ------------------------------------------------- commit, push, pull request
\* process_issue 368-369, commit_all 258-261. What the later steps do with
\* llm_out, diff and checks_log is the text of the PR body, which is not
\* followed further.
commit_all ==
    /\ Running("commit_all")
    /\ \E ok \in BOOLEAN :
          /\ ext' = IF ok THEN "ok" ELSE "fail"
          /\ IF ok
             THEN /\ dirty' = FALSE
                  /\ Step("create_ephemeral_remote")
             ELSE /\ UNCHANGED dirty
                  /\ Fail("commit_all")
    /\ llm_out' = <<>>
    /\ diff' = <<>>
    /\ checks' = NoChecks
    /\ UNCHANGED naming
    /\ UNCHANGED <<stateDirTracked, stop, tick, issues, idx, caller, branches, remote,
                   files, stateDirExists, attempts, before, rmFailed, prs, loaded>>

\* process_issue 372, create_ephemeral_remote 114-122: git remote remove
\* (exit status ignored), then git remote add, which fails when the remote
\* is still there.
create_ephemeral_remote ==
    /\ Running("create_ephemeral_remote")
    /\ \E rmOK, addOK \in BOOLEAN :
          LET left == RemoteAfterRemove(remote, rmOK)
              ok == addOK /\ ~left
          IN  /\ remote' = (left \/ ok)
              /\ rmFailed' = left
              /\ ext' = IF ok THEN "ok" ELSE "fail"
              /\ IF ok THEN Step("push_branch") ELSE Fail("create_ephemeral_remote")
    /\ UNCHANGED naming
    /\ UNCHANGED <<stateDirTracked, stop, tick, issues, idx, caller, branches, dirty,
                   files, stateDirExists, llm_out, diff, checks, attempts, before, prs,
                   loaded>>

\* process_issue 373-376: push_branch in try, delete_ephemeral_remote in
\* finally.
push_branch ==
    /\ Running("push_branch")
    /\ \E pushOK, rmOK \in BOOLEAN :
          /\ ext' = IF pushOK THEN "ok" ELSE "fail"
          /\ IF finally_runs(pushOK)
             THEN /\ remote' = RemoteAfterRemove(remote, rmOK)
                  /\ rmFailed' = RemoteAfterRemove(remote, rmOK)
             ELSE UNCHANGED <<remote, rmFailed>>
          /\ IF pushOK THEN Step("open_pr") ELSE Fail("push_branch")
    /\ UNCHANGED naming
    /\ UNCHANGED <<stateDirTracked, stop, tick, issues, idx, caller, branches, dirty,
                   files, stateDirExists, llm_out, diff, checks, attempts, before, prs,
                   loaded>>

\* process_issue 378-382, open_pr 266-268
open_pr ==
    /\ Running("open_pr")
    /\ \E ok \in BOOLEAN :
          /\ ext' = IF ok THEN "ok" ELSE "fail"
          /\ IF ok
             THEN /\ prs' = [prs EXCEPT ![cur] = @ + 1]
                  /\ Step("mark")
             ELSE /\ UNCHANGED prs
                  /\ Fail("open_pr")
    /\ UNCHANGED naming
    /\ UNCHANGED <<stateDirTracked, stop, tick, issues, idx, caller, branches, dirty,
                   remote, files, stateDirExists, llm_out, diff, checks, attempts,
                   before, rmFailed, loaded>>

\* main 420-421: process_issue returned; the issue is marked and save_state
\* is called.
mark ==
    /\ Running("mark")
    /\ state' = stamp(mark_processed(state, cur))
    /\ caller' = "mark"
    /\ pc' = "save_open"
    /\ llm_out' = <<>>
    /\ diff' = <<>>
    /\ checks' = NoChecks
    /\ ext' = "none"
    /\ before' = {}
    /\ UNCHANGED naming
    /\ UNCHANGED <<stateDirTracked, stop, tick, issues, idx, branches, dirty, remote,
                   files, stateDirExists, attempts, failedAt, rmFailed, prs, loaded>>

\* ------------------------------------------------------ save_state, save_json
\* An exception of save_state: caught by main 422 at the call of 421,
\* uncaught at the call of 428, which is outside every try.
SaveRaise ==
    /\ caller' = "none"
    /\ IF caller = "mark"
       THEN /\ pc' = "retry_sleep"
            /\ failedAt' = "save_state"
            /\ state' = except_state(state, cur)
       ELSE /\ pc' = "crashed"
            /\ UNCHANGED <<failedAt, state>>

\* save_json 66-67: tmp.open("w") creates or truncates the temp file; it
\* raises when STATE_DIR is gone or the file system refuses.
save_open ==
    /\ Running("save_open")
    /\ \E io \in BOOLEAN :
          IF io /\ stateDirExists
          THEN /\ files' = [files EXCEPT ![with_suffix(STATE_FILE)] =
                                [exists |-> TRUE, data |-> <<>>]]
               /\ pc' = "save_write"
               /\ UNCHANGED <<failedAt, state, caller>>
          ELSE /\ UNCHANGED files
               /\ SaveRaise
    /\ UNCHANGED naming
    /\ UNCHANGED <<stateDirTracked, stop, tick, issues, idx, branches, dirty, remote,
                   stateDirExists, llm_out, diff, checks, attempts, before, ext,
                   rmFailed, prs, loaded>>

\* save_json 68: json.dump writes the object chunk by chunk into the temp
\* file; the file is closed after the last chunk.
save_write ==
    /\ Running("save_write")
    /\ LET tmp == with_suffix(STATE_FILE)
           out == json_dump(state)
           n == Len(files[tmp].data)
       IN  \E io \in BOOLEAN :
              IF io
              THEN /\ files' = [files EXCEPT ![tmp].data = Append(@, out[n + 1])]
                   /\ pc' = IF n + 1 = Len(out) THEN "save_replace" ELSE "save_write"
                   /\ UNCHANGED <<failedAt, state, caller>>
              ELSE /\ UNCHANGED files
                   /\ SaveRaise
    /\ UNCHANGED naming
    /\ UNCHANGED <<stateDirTracked, stop, tick, issues, idx, branches, dirty, remote,
                   stateDirExists, llm_out, diff, checks, attempts, before, ext,
                   rmFailed, prs, loaded>>

\* save_json 69: tmp.replace(path) renames the temp file over the state file;
\* then save_state returns to main 421 (next issue) or 428 (sleep).
save_replace ==
    /\ Running("save_replace")
    /\ LET tmp == with_suffix(STATE_FILE)
       IN  \E io \in BOOLEAN :
              IF io
              THEN /\ files' = [p \in Paths |->
                                  IF p = STATE_FILE THEN files[tmp]
                                  ELSE IF p = tmp THEN Absent
                                  ELSE files[p]]
                   /\ pc' = IF caller = "mark" THEN "for" ELSE "sleep"
                   /\ idx' = IF caller = "mark" THEN idx + 1 ELSE idx
                   /\ caller' = "none"
                   /\ UNCHANGED <<failedAt, state>>
              ELSE /\ UNCHANGED <<files, idx>>
                   /\ SaveRaise
    /\ UNCHANGED naming
    /\ UNCHANGED <<stateDirTracked, stop, tick, issues, branches, dirty, remote,
                   stateDirExists, llm_out, diff, checks, attempts, before, ext,
                   rmFailed, prs, loaded>>

\* ------------------------------------------------------------ specification
\* The steps of the agent's single thread of control.
Agent ==
    \/ Exit
    \/ Poll
    \/ ForDone
    \/ ForSkip
    \/ ForStart
    \/ retry_sleep
    \/ poll_sleep
    \/ ack_issue
    \/ ensure_clean_main
    \/ create_branch
    \/ build_prompt
    \/ call_ollama
    \/ extract_diff
    \/ apply_diff
    \/ run_checks
    \/ exec_log
    \/ commit_all
    \/ create_ephemeral_remote
    \/ push_branch
    \/ open_pr
    \/ mark
    \/ save_open
    \/ save_write
    \/ save_replace

\* The agent steps, or a signal arrives.
Next == Agent \/ handle_sigterm

Spec == Init /\ [][Next]_vars

\* The thread of control keeps running: every call it makes returns or
\* raises, none blocks for ever. Signals arrive or not.
LiveSpec == Init /\ [][Next]_vars /\ WF_vars(Agent)

\* --------------------------------------------------- branch naming on its own
\* process_issue stands before line 348 with an issue of some number and
\* some title; the rest is as at the start of the process.
SlugInit ==
    /\ title \in Titles
    /\ branch = <<>>
    /\ issues \in { <<n>> : n \in Ids }
    /\ idx = 1
    /\ pc = "minimal_branch_name"
    /\ stateDirTracked = TRUE
    /\ stop = FALSE
    /\ tick = 1
    /\ state = [processed_issues |-> {}, last_run |-> 0]
    /\ loaded = {}
    /\ files = [p \in Paths |-> Absent]
    /\ stateDirExists = TRUE
    /\ caller = "none"
    /\ branches = {}
    /\ dirty = FALSE
    /\ remote = FALSE
    /\ rmFailed = FALSE
    /\ llm_out = <<>>
    /\ diff = <<>>
    /\ checks = NoChecks
    /\ attempts = [i \in Ids |-> 0]
    /\ before = {}
    /\ failedAt = "none"
    /\ ext = "none"
    /\ prs = [i \in Ids |-> 0]

\* process_issue 348: branch = minimal_branch_name(issue)
name_branch ==
    /\ Running("minimal_branch_name")
    /\ branch' = minimal_branch_name(cur, title)
    /\ pc' = "named"
    /\ UNCHANGED <<stateDirTracked, stop, tick, state, issues, idx, caller, branches,
                   dirty, remote, files, stateDirExists, llm_out, diff, checks,
                   attempts, before, failedAt, ext, rmFailed, prs, loaded, title>>

SlugSpec == SlugInit /\ [][name_branch]_vars

\* ------------------------------------------------------------------ claims
PipelinePcs ==
    {"ack_issue", "ensure_clean_main", "create_branch", "build_prompt",
     "call_ollama", "extract_unified_diff", "apply_diff", "run_checks",
     "exec_log", "commit_all", "create_ephemeral_remote", "push_branch",
     "open_pr"}

SavePcs == {"save_open", "save_write", "save_replace"}

\* The steps of process_issue whose exception ends the attempt.
FatalSteps ==
    {"ensure_clean_main", "create_branch", "build_prompt", "call_ollama",
     "extract_unified_diff", "apply_diff", "run_checks", "commit_all",
     "create_ephemeral_remote", "push_branch", "open_pr"}

\* The for loop of the tick has gone through the whole listing.
TickDone ==
    /\ tick >= 1
    /\ \/ pc \in {"sleep", "while", "exited", "crashed"}
       \/ pc \in SavePcs /\ caller = "tick"

\* C1: an identifier is in the in-memory dedup store only if an earlier run
\* stored it or process_issue went through every step up to a successful
\* open_pr for it; after an attempt that failed at a step the issue of the
\* attempt is not in the store.
C1_MarkedOnlyAfterDone ==
    /\ \A i \in state.processed_issues : i \in loaded \/ prs[i] >= 1
    /\ pc = "retry_sleep" /\ failedAt \in FatalSteps
          => cur \notin state.processed_issues

\* C1 witness: an issue was marked in this run, after its PR was opened.
C1_Witness ==
    \E i \in state.processed_issues : i \notin loaded /\ prs[i] = 1

\* C2: while a step of the pipeline runs, the issue it runs for was not in the
\* dedup store when the loop met it and is not in it now; an issue the store
\* held at start is never attempted, in no tick.
C2_ProcessedIsSkipped ==
    /\ pc \in PipelinePcs =>
          cur \notin before /\ cur \notin state.processed_issues
    /\ \A i \in loaded : attempts[i] = 0 /\ prs[i] = 0
    /\ \A i \in Ids : prs[i] <= 1

\* C2 witness: the loop has just passed an issue that an earlier tick of this
\* run marked, without an attempt in this tick.
C2_Witness ==
    /\ pc = "for"
    /\ idx > 1
    /\ idx - 1 <= Len(issues)
    /\ issues[idx - 1] \in state.processed_issues
    /\ issues[idx - 1] \notin loaded
    /\ attempts[issues[idx - 1]] = 0

\* C3: the step at which a fatal step fails leads to the except branch of the
\* poll loop (never out of the loop) with the dedup mapping as it was before
\* the attempt, and from there the loop moves to the next issue of the same
\* listing.
C3_FailureCaught ==
    /\ [][failedAt = "none" /\ failedAt' \in FatalSteps =>
             /\ pc' = "retry_sleep"
             /\ state' = state
             /\ state'.processed_issues = before
             /\ issues' = issues
             /\ idx' = idx]_vars
    /\ [][pc = "retry_sleep" /\ pc' # pc =>
             /\ pc' = "for"
             /\ idx' = idx + 1
             /\ issues' = issues
             /\ state' = state]_vars

\* C3 witness: after a failed attempt the loop stands at the next issue of
\* the listing, the failed one unmarked.
C3_Witness ==
    /\ pc = "ack_issue"
    /\ idx = 2
    /\ attempts[issues[1]] = 1
    /\ issues[1] \notin state.processed_issues

\* C4: in a tick no issue is attempted twice, and when the loop has gone
\* through the listing every listed issue that is still unmarked (so every
\* listed issue whose earlier attempts failed) was attempted in this tick.
C4_RetryNextTickOnly ==
    /\ \A i \in Ids : attempts[i] <= 1
    /\ TickDone =>
          \A k \in 1..Len(issues) :
              issues[k] \notin state.processed_issues => attempts[issues[k]] = 1

\* C4 witness: a later tick attempts an issue again whose earlier attempt
\* failed after it had created the topic branch.
C4_Witness ==
    /\ pc = "create_branch"
    /\ tick = 2
    /\ cur \in branches
    /\ attempts[cur] = 1

\* C5 (as claimed): create_branch fails only when git itself fails, whatever
\* an earlier failed attempt for the issue left behind.
C5_RetryUnaffected == failedAt = "create_branch" => ext = "fail"

C7_FallbackProceeds == ext = "fallback_ok" => failedAt # "apply_diff"

\* C8 (as claimed): no attempt ends in run_checks.
C8_PreflightNeverAborts == failedAt # "run_checks"

\* A fence that carries the tag diff / patch and is closed later.
HasTaggedFence(s) ==
    \E i \in 1..Len(s) : \E j \in (i + 2)..Len(s) :
        s[i] = "F" /\ s[i + 1] = "T" /\ s[j] = "F"

\* C9 (as claimed): a model output without a fenced block tagged diff / patch
\* and without both a "--- " and a "+++ " line gives the empty diff, and the
\* attempt ends at the extraction.
C9_NoDiffWithoutMarkers ==
    /\ llm_out # <<>>
    /\ pc \in {"apply_diff", "retry_sleep"}
    /\ ~HasTaggedFence(llm_out)
    /\ ~(Has(llm_out, "M") /\ Has(llm_out, "P"))
    => diff = <<>> /\ failedAt = "extract_unified_diff"

\* The file that holds the whole of a state.
WholeFile(st) == [exists |-> TRUE, data |-> json_dump(st)]

\* A step of save_state / save_json leaves the state file as it is or puts
\* the whole new state in its place.
SaveStepKeepsOrReplaces ==
    pc \in SavePcs =>
        \/ files'[STATE_FILE] = files[STATE_FILE]
        \/ files'[STATE_FILE] = WholeFile(state)

\* C10: a kill leaves on disk what the state it strikes in has on disk, so the
\* claim is about every state: the state file, when it exists, holds a whole
\* object, and no step of save_state / save_json changes it to anything but
\* the whole new state.
C10_StateFileAtomic ==
    /\ [](files[STATE_FILE].exists => Parseable(files[STATE_FILE].data))
    /\ [][SaveStepKeepsOrReplaces]_vars

\* C10 witness: a kill point in the middle of the write: the temp file is
\* partial while the state file holds the whole earlier state.
C10_Witness ==
    /\ pc = "save_write"
    /\ Len(files["state.tmp"].data) >= 1
    /\ ~Parseable(files["state.tmp"].data)
    /\ files[STATE_FILE].exists
    /\ files[STATE_FILE].data # json_dump(state)
    /\ Parseable(files[STATE_FILE].data)

\* What a restart would find in its dedup store: load_state of the files as
\* they are now (a crash changes nothing on disk).
PersistedIssues == load_state(files).processed_issues

\* The pipeline reached DONE for the issue, in this run or in an earlier one.
Completed(i) == i \in loaded \/ prs[i] >= 1

\* The completion of the issue is in flight: its PR is open, the mark of
\* main 420 or the flush of main 421 is under way.
CompletionInFlight(i) ==
    /\ issues # <<>>
    /\ idx <= Len(issues)
    /\ cur = i
    /\ pc = "mark" \/ (pc \in SavePcs /\ caller = "mark")

\* C11 (as claimed): at every point where a crash can strike, each issue
\* whose pipeline reached DONE is in the store a restart would load, except
\* the one whose completion is in flight.
C11_CrashLosesAtMostInFlight ==
    \A i \in Ids :
        Completed(i) /\ i \notin PersistedIssues => CompletionInFlight(i)

\* The loop has ended: the test of main 410 failed, or an exception left main.
LoopEnded == pc \in {"exited", "crashed"}

\* Once the flag is set it stays set and no list-issues call is made.
NoTickAfterStop == stop => stop' /\ tick' = tick

\* The signal handler sets the flag and nothing else: the step that is under
\* way is where it was, with what it had.
SignalOnlySetsFlag ==
    stop' # stop =>
        UNCHANGED <<pc, tick, state, issues, idx, caller, branches, dirty, remote,
                    files, llm_out, diff, checks, attempts, failedAt, prs>>

\* The pipeline is left by one of its two ends only: the return of
\* process_issue to the mark of main 420, or the except branch of main 422.
PipelineEndsNormally ==
    pc \in PipelinePcs /\ pc' \notin PipelinePcs => pc' \in {"mark", "retry_sleep"}

C13_FlushedEveryTick ==
    tick >= 1 /\ pc \in {"sleep", "while", "exited", "crashed"}
        => PersistedIssues = state.processed_issues

\* The title has more characters than slugify keeps.
LongTitle == Len(title) > SlugMax

\* The title is made of non-alphanumeric symbols only.
AllSymbols ==
    /\ title # <<>>
    /\ \A i \in 1..Len(title) :
          title[i] \notin LowerCase \cup UpperCase \cup Digits

\* The part of the branch name after "agent/issue-<number>-".
SlugOf(b, number) ==
    SubSeq(b, Len(BranchPrefix) + Len(str(number)) + 2, Len(b))

\* C14 (as claimed): the name given to an issue is that of its number and
\* title and of nothing else; for a title longer than the truncation bound
\* it has at most 60 characters; for a title of symbols only its slug is the
\* placeholder.
C14_BranchNaming ==
    pc = "named" =>
        /\ branch = minimal_branch_name(cur, title)
        /\ LongTitle => Len(branch) <= SlugMax
        /\ AllSymbols => SlugOf(branch, cur) = Placeholder

\* The steps of process_issue in the order of its text, then the mark of
\* main 420.
StepOrder ==
    <<"ack_issue", "ensure_clean_main", "create_branch", "build_prompt",
      "call_ollama", "extract_unified_diff", "apply_diff", "run_checks",
      "exec_log", "commit_all", "create_ephemeral_remote", "push_branch",
      "open_pr", "mark">>

Rank(p) == CHOOSE k \in 1..Len(StepOrder) : StepOrder[k] = p

\* The step of process_issue that position p belongs to.
StepAt(p) == IF p = "exec_log" THEN "run_checks" ELSE p

\* A pipeline is entered at the acknowledgment only; a step is followed by
\* the next step of the order (the preflight without commands goes straight
\* to the commit) or, when it fails, by the except branch of main.
StepsInOrder ==
    /\ pc \notin PipelinePcs /\ pc' \in PipelinePcs => pc = "for" /\ pc' = "ack_issue"
    /\ pc \in PipelinePcs /\ pc' # pc =>
          \/ /\ pc' = "retry_sleep"
             /\ failedAt' = StepAt(pc)
             /\ failedAt' \in FatalSteps
          \/ /\ failedAt' = "none"
             /\ \/ Rank(pc') = Rank(pc) + 1
                \/ pc = "run_checks" /\ pc' = "commit_all"

\* What a step finds of the steps before it: no failure; the answer ok of
\* the step just before; the topic branch; a diff; the applied patch staged
\* and not yet committed; the commit; the remote; the PR.
EarlierStepsSucceeded ==
    /\ pc \in PipelinePcs => failedAt = "none"
    /\ pc \in {"create_branch", "build_prompt", "call_ollama",
                "extract_unified_diff", "run_checks", "create_ephemeral_remote",
                "push_branch", "open_pr", "mark"} => ext = "ok"
    /\ pc \in PipelinePcs \cup {"mark"} /\ Rank(pc) > Rank("create_branch")
          => cur \in branches
    /\ pc = "apply_diff" => diff # <<>>
    /\ pc \in {"run_checks", "exec_log", "commit_all"} => dirty
    /\ pc \in {"create_ephemeral_remote", "push_branch", "open_pr", "mark"} => ~dirty
    /\ pc = "push_branch" => remote
    /\ pc = "mark" => prs[cur] = 1

\* C15: the steps of an attempt run in the fixed order, and a step runs only
\* when every fatal step before it succeeded: no apply without a diff, no
\* commit without the applied patch, no push without the commit and the
\* remote, no PR without the push, no mark without the PR.
C15_FixedStepOrder ==
    /\ [][StepsInOrder]_vars
    /\ []EarlierStepsSucceeded

\* C15 witness: an attempt went through the whole order.
C15_Witness ==
    /\ pc = "mark"
    /\ ext = "ok"
    /\ cur \in branches
    /\ ~dirty
    /\ attempts[cur] = 1

\* The acknowledgment, posted or not, hands over to the base reset and
\* touches nothing of the attempt: what follows is the same in both cases.
AckHandsOver ==
    pc = "ack_issue" /\ pc' # pc =>
        /\ pc' = "ensure_clean_main"
        /\ failedAt' = "none"
        /\ UNCHANGED <<state, issues, idx, branches, dirty, remote, files,
                       stateDirExists, llm_out, diff, checks, attempts, prs>>

\* C16: the acknowledgment never ends the attempt: after it, posted or
\* failed, the pipeline stands at the base reset with the attempt untouched,
\* and no attempt is recorded as failed at the acknowledgment.
C16_AckNeverAborts ==
    /\ [][AckHandsOver]_vars
    /\ [](failedAt # "ack_issue")

\* C16 witness: the comment failed and the pipeline stands at the base reset.
C16_Witness ==
    /\ pc = "ensure_clean_main"
    /\ ext = "fail"
    /\ failedAt = "none"
    /\ cur \notin state.processed_issues

\* C17 (as claimed): when run_checks has returned and the hook configuration
\* exists, the hooks were run in it, whichever test rule matched and
\* however its commands ended.
C17_HooksAlwaysRun ==
    pc = "commit_all" /\ checks.hooks => "precommit_run" \in checks.ran

\* The diff begins with a "--- " header line.
StartsWithPreamble(d) == d # <<>> /\ d[1] = "M"

\* C18 (as claimed): a diff that does not begin with a preamble is turned
\* down before git is run on it: the attempt that ends at the patch
\* application has no answer of git apply, and no such diff gets past the
\* application.
C18_PreambleGate ==
    /\ pc = "retry_sleep" /\ failedAt = "apply_diff" /\ ~StartsWithPreamble(diff)
          => ext \notin {"ok", "fallback_ok", "fail"}
    /\ pc = "run_checks" => StartsWithPreamble(diff)

\* C19 (as claimed): no step deletes the state directory, and nothing but a
\* flush changes the mapping on disk: what load_state returned is still
\* there, whatever the pipeline has done since.
C19_StateDirUntouched ==
    /\ stateDirExists
    /\ loaded \subseteq PersistedIssues

\* The PR of the issue is open and its mark of main 420 is still to come.
MarkPending(i) == pc = "mark" /\ cur = i

\* C20: no issue has more than one successful open_pr; an issue whose PR
\* is open is in the in-memory store from the mark on, whatever becomes of
\* the flush, and no attempt runs for it.
C20_OnePrPerIssue ==
    /\ \A i \in Ids : prs[i] <= 1
    /\ \A i \in Ids : prs[i] = 1 => i \in state.processed_issues \/ MarkPending(i)
    /\ pc \in PipelinePcs => prs[cur] = 0

\* C20 witness: the flush after a successful pipeline failed; the issue, its
\* PR open, stays marked in memory while the state file does not hold it.
C20_Witness ==
    /\ pc = "retry_sleep"
    /\ failedAt = "save_state"
    /\ prs[cur] = 1
    /\ cur \in state.processed_issues
    /\ cur \notin PersistedIssues
====
